---- MODULE Spec2Model ----
(***************************************************************************)
(* Model of the task lifecycle engine (services/tasks), run one call at a  *)
(* time and under two concurrent callers, of the feedback rate limiter     *)
(* (services/feedback) with its submission route, and of the search over   *)
(* notes, artifacts and tasks (services/search).                           *)
(*                                                                         *)
(* Strings that the code takes apart (project names, task ids) are         *)
(* sequences of one-character strings.  Timestamps are integers (the       *)
(* ISO-8601 strings the code stores compare, as strings, in the order of   *)
(* the instants they denote); a NULL column is the value NULL.             *)
(***************************************************************************)
EXTENDS Integers, Sequences, FiniteSets, TLC

VARIABLES
    tasks,      \* the tasks table: a set of rows, id being the primary key
    vault,      \* the mirrored task files, one per task id
    now,        \* the clock read by new Date() / Date.now(), in milliseconds
    issued,     \* the ids createTask has returned, in call order
    ret,        \* what the last task operation returned to its caller
    feedback,   \* the feedback table: rows in insertion order
    rl,         \* what the last feedback operation returned to its caller
    notes,      \* the notes table: rows in rowid order
    artifacts,  \* the artifacts table: rows in rowid order
    calls       \* the task operations in flight, one per concurrent caller

vars == <<tasks, vault, now, issued, ret, feedback, rl, notes, artifacts, calls>>

(***************************************************************************)
(* Bounds of the model.                                                    *)
(***************************************************************************)
MaxCreates == 2
MaxIssued == 4
MaxLimit == 2
MaxFeedback == 3

NULL == -1

\* a NULL text column, and an optional text argument left out
NullText == <<"NULL">>

(***************************************************************************)
(* String helpers.                                                         *)
(***************************************************************************)
LowerLetters == <<"a","b","c","d","e","f","g","h","i","j","k","l","m",
                  "n","o","p","q","r","s","t","u","v","w","x","y","z">>
UpperLetters == <<"A","B","C","D","E","F","G","H","I","J","K","L","M",
                  "N","O","P","Q","R","S","T","U","V","W","X","Y","Z">>
Digits == <<"0","1","2","3","4","5","6","7","8","9">>

Range(s) == {s[i] : i \in DOMAIN s}

IndexIn(s, c) == CHOOSE i \in DOMAIN s : s[i] = c

IsDigit(c) == c \in Range(Digits)

DigitValue(c) == IndexIn(Digits, c) - 1

ToLowerChar(c) == IF c \in Range(UpperLetters) THEN LowerLetters[IndexIn(UpperLetters, c)] ELSE c

ToUpperChar(c) == IF c \in Range(LowerLetters) THEN UpperLetters[IndexIn(LowerLetters, c)] ELSE c

toLowerCase(s) == [i \in DOMAIN s |-> ToLowerChar(s[i])]

toUpperCase(s) == [i \in DOMAIN s |-> ToUpperChar(s[i])]

\* String.prototype.slice(0, n)
slice(s, n) == IF Len(s) <= n THEN s ELSE SubSeq(s, 1, n)

\* SQLite SUBSTR(s, from): the characters of s from 1-based position from on
SUBSTR(s, from) == SubSeq(s, from, Len(s))

\* the value of a sequence of decimal digits
RECURSIVE DigitsValue(_)
DigitsValue(s) ==
    IF s = <<>> THEN 0
    ELSE 10 * DigitsValue(SubSeq(s, 1, Len(s) - 1)) + DigitValue(s[Len(s)])

\* the longest prefix of s made of decimal digits
RECURSIVE LeadingDigits(_)
LeadingDigits(s) ==
    IF s = <<>> \/ ~IsDigit(s[1]) THEN <<>>
    ELSE <<s[1]>> \o LeadingDigits(Tail(s))

\* SQLite CAST(text AS INTEGER): the longest prefix that reads as an integer
\* (an optional sign, then digits); 0 when there is none
CastInteger(s) ==
    IF s # <<>> /\ s[1] \in {"-", "+"}
    THEN (IF s[1] = "-" THEN -1 ELSE 1) * DigitsValue(LeadingDigits(Tail(s)))
    ELSE DigitsValue(LeadingDigits(s))

\* SQLite LIKE: % matches any run of characters, _ any one character, and
\* letters match regardless of case
RECURSIVE Like(_, _)
Like(pat, s) ==
    IF pat = <<>> THEN s = <<>>
    ELSE IF pat[1] = "%"
         THEN \E k \in 0..Len(s) : Like(Tail(pat), SubSeq(s, k + 1, Len(s)))
    ELSE IF s = <<>> THEN FALSE
    ELSE /\ (pat[1] = "_" \/ ToUpperChar(pat[1]) = ToUpperChar(s[1]))
         /\ Like(Tail(pat), Tail(s))

\* the decimal digits of a natural number: String(n)
RECURSIVE NumberToString(_)
NumberToString(n) ==
    IF n < 10 THEN <<Digits[n + 1]>>
    ELSE NumberToString(n \div 10) \o <<Digits[(n % 10) + 1]>>

\* String.prototype.padStart(width, "0")
RECURSIVE padStart(_, _)
padStart(s, width) == IF Len(s) >= width THEN s ELSE padStart(<<"0">> \o s, width)

\* id.match(/-(\d+)$/): the positions p where s[p] is "-" and everything
\* after it, to the end of s, is one or more digits
SuffixMatches(s) ==
    {p \in DOMAIN s : /\ s[p] = "-"
                      /\ p < Len(s)
                      /\ \A q \in (p + 1)..Len(s) : IsDigit(s[q])}

\* parseInt(match[1], 10) of that match
SuffixNumber(s) ==
    LET p == CHOOSE q \in SuffixMatches(s) : \A r \in SuffixMatches(s) : q <= r
    IN  DigitsValue(SubSeq(s, p + 1, Len(s)))

(***************************************************************************)
(* security/sanitize.ts                                                    *)
(***************************************************************************)
ProjectChar(c) == c \in Range(LowerLetters) \/ IsDigit(c) \/ c \in {"-", "_"}

sanitizeProjectNameLowerOnly(input) == toLowerCase(input)

sanitizeProjectName(input) == SelectSeq(toLowerCase(input), ProjectChar)

(***************************************************************************)
(* services/tasks: identifier allocation                                   *)
(***************************************************************************)
PrefixLength == 10
IdWidth == 3

Undefined == "undefined"

TaskPrefix(project) == slice(toUpperCase(project), PrefixLength)

\* ORDER BY CAST(SUBSTR(id, LENGTH(prefix) + 2) AS INTEGER) DESC
SuffixKey(id, prefix) == CastInteger(SUBSTR(id, Len(prefix) + 2))

\* the rows SELECT ... WHERE id LIKE prefix || '-%' ORDER BY ... DESC LIMIT 1
\* can return: any row of the greatest sort key (SQLite leaves the order of
\* equal keys open); empty when no id matches
HighestRows(rows, prefix) ==
    LET matching == {t \in rows : Like(prefix \o <<"-", "%">>, t.id)}
    IN  {t \in matching : \A u \in matching : SuffixKey(u.id, prefix) <= SuffixKey(t.id, prefix)}

NextNumber(found) ==
    IF found = {} THEN 1
    ELSE LET result == CHOOSE t \in found : TRUE
         IN  IF SuffixMatches(result.id) # {} THEN SuffixNumber(result.id) + 1 ELSE 1

FormatTaskId(prefix, nextNum) == prefix \o <<"-">> \o padStart(NumberToString(nextNum), IdWidth)

\* the ids generateTaskId(project) can return over the table `rows`
generateTaskId(rows, project) ==
    LET prefix == TaskPrefix(project)
        top == HighestRows(rows, prefix)
    IN  IF top = {} THEN {FormatTaskId(prefix, NextNumber({}))}
        ELSE {FormatTaskId(prefix, NextNumber({t})) : t \in top}

(***************************************************************************)
(* services/tasks: rows and the mirror                                     *)
(***************************************************************************)
TitleLimit == 200

truncate(s, maxLength) == slice(s, maxLength)

getTaskById(rows, id) == {t \in rows : t.id = id}

\* syncTaskToVault, with a vault path configured: the file of task.id is
\* rewritten from the row
syncTaskToVault(files, task) == {f \in files : f.id # task.id} \cup {task}

\* deleteTaskFromVault: the file of task.id is removed
deleteTaskFromVault(files, task) == {f \in files : f.id # task.id}

NoReturn == [op |-> "init", arg |-> <<>>, error |-> "", rows |-> {}, list |-> <<>>,
             flag |-> FALSE, mirror |-> "none"]

Returned(op, arg, error, rows, list, flag, mirror) ==
    [op |-> op, arg |-> arg, error |-> error, rows |-> rows, list |-> list,
     flag |-> flag, mirror |-> mirror]

(***************************************************************************)
(* services/tasks: createTask                                              *)
(***************************************************************************)
NewTaskWithoutDefaults(id, input, project, t) ==
    [id |-> id,
     title |-> truncate(input.title, TitleLimit),
     description |-> NullText,
     project |-> project,
     status |-> "queued",
     trust_level |-> input.trust_level,
     priority |-> input.priority,
     created_at |-> t,
     started_at |-> NULL,
     completed_at |-> NULL]

\* the row createTask inserts; the inputs modelled carry no description, so
\* the column is NULL
NewTask(id, input, project, t) ==
    [id |-> id,
     title |-> truncate(input.title, TitleLimit),
     description |-> NullText,
     project |-> project,
     status |-> "queued",
     trust_level |-> IF input.trust_level = Undefined THEN "PROTOTYPE" ELSE input.trust_level,
     priority |-> IF input.priority = Undefined THEN "NORMAL" ELSE input.priority,
     created_at |-> t,
     started_at |-> NULL,
     completed_at |-> NULL]

CreateTask(input, mirrorOk) ==
    LET project == sanitizeProjectName(input.project)
    IN  /\ UNCHANGED <<now, feedback, rl, notes, artifacts, calls>>
        /\ IF project = <<>>
           THEN /\ ret' = Returned("createTask", input.project, "Project is required",
                                   {}, <<>>, FALSE, "none")
                /\ UNCHANGED <<tasks, vault, issued>>
           ELSE \E id \in generateTaskId(tasks, project) :
                  IF getTaskById(tasks, id) # {}
                  THEN \* INSERT fails on the primary key; the error propagates
                       /\ ret' = Returned("createTask", input.project, "SQLITE_CONSTRAINT",
                                          {}, <<>>, FALSE, "none")
                       /\ UNCHANGED <<tasks, vault, issued>>
                  ELSE LET task == NewTask(id, input, project, now)
                       IN  /\ tasks' = tasks \cup {task}
                           /\ vault' = IF mirrorOk THEN syncTaskToVault(vault, task) ELSE vault
                           /\ issued' = Append(issued, [project |-> project, id |-> id])
                           /\ ret' = Returned("createTask", input.project, "",
                                              {task}, <<>>, FALSE, "sync")

(***************************************************************************)
(* services/tasks: activateTask, completeTask, cancelTask, deleteTask      *)
(***************************************************************************)
CannotActivateCompletedOnly(status) == status = "completed"

\* the statuses activateTask refuses
CannotActivate(status) == status \in {"completed", "cancelled"}

DemoteNone(rows, project) == rows

DemoteAllButQueued(rows, project) ==
    {IF t.project = project /\ t.status # "queued" THEN [t EXCEPT !.status = "queued"] ELSE t
       : t \in rows}

DemoteActiveEverywhere(rows, project) ==
    {IF t.status = "active" THEN [t EXCEPT !.status = "queued"] ELSE t : t \in rows}

\* UPDATE tasks SET status = 'queued' WHERE project = ? AND status = 'active'
DemoteActive(rows, project) ==
    {IF t.project = project /\ t.status = "active" THEN [t EXCEPT !.status = "queued"] ELSE t
       : t \in rows}

OverwriteStartedAt(started_at, t) == t

\* COALESCE(started_at, ?)
CoalesceStartedAt(started_at, t) == IF started_at # NULL THEN started_at ELSE t

SetActiveStatusOnly(rows, id, t) ==
    {IF r.id = id THEN [r EXCEPT !.status = "active"] ELSE r : r \in rows}

\* UPDATE tasks SET status = 'active', started_at = COALESCE(started_at, ?) WHERE id = ?
SetActive(rows, id, t) ==
    {IF r.id = id
     THEN [r EXCEPT !.status = "active", !.started_at = CoalesceStartedAt(r.started_at, t)]
     ELSE r : r \in rows}

SetCompletedAndCreated(rows, id, t) ==
    {IF r.id = id
     THEN [r EXCEPT !.status = "completed", !.completed_at = t, !.created_at = t]
     ELSE r : r \in rows}

\* UPDATE tasks SET status = 'completed', completed_at = ? WHERE id = ?
SetCompleted(rows, id, t) ==
    {IF r.id = id THEN [r EXCEPT !.status = "completed", !.completed_at = t] ELSE r : r \in rows}

\* UPDATE tasks SET status = 'cancelled' WHERE id = ?
SetCancelled(rows, id) ==
    {IF r.id = id THEN [r EXCEPT !.status = "cancelled"] ELSE r : r \in rows}

MirrorFailureSurfaces(op, id, updated, mirrorOk) ==
    /\ vault' = IF updated # {} /\ mirrorOk
                THEN syncTaskToVault(vault, CHOOSE t \in updated : TRUE)
                ELSE vault
    /\ ret' = IF mirrorOk
              THEN Returned(op, id, "", updated, <<>>, FALSE,
                            IF updated # {} THEN "sync" ELSE "none")
              ELSE Returned(op, id, "EACCES", {}, <<>>, FALSE, "sync")

\* the mirror call at the end of a status change: made when the row re-read
\* after the update exists; a failing call is caught and logged
MirrorUpdated(op, id, updated, mirrorOk) ==
    /\ vault' = IF updated # {} /\ mirrorOk
                THEN syncTaskToVault(vault, CHOOSE t \in updated : TRUE)
                ELSE vault
    /\ ret' = Returned(op, id, "", updated, <<>>, FALSE,
                       IF updated # {} THEN "sync" ELSE "none")

NotFoundThrows(op, id) ==
    /\ ret' = Returned(op, id, "Task not found", {}, <<>>, FALSE, "none")
    /\ UNCHANGED <<tasks, vault>>

NotFound(op, id) ==
    /\ ret' = Returned(op, id, "", {}, <<>>, FALSE, "none")
    /\ UNCHANGED <<tasks, vault>>

ActivateTask(id, mirrorOk) ==
    LET found == getTaskById(tasks, id)
    IN  /\ UNCHANGED <<now, issued, feedback, rl, notes, artifacts, calls>>
        /\ IF found = {} THEN NotFound("activateTask", id)
           ELSE LET task == CHOOSE t \in found : TRUE
                IN  IF CannotActivate(task.status)
                    THEN /\ ret' = Returned("activateTask", id, "Cannot activate task",
                                            {}, <<>>, FALSE, "none")
                         /\ UNCHANGED <<tasks, vault>>
                    ELSE /\ tasks' = SetActive(DemoteActive(tasks, task.project), id, now)
                         /\ MirrorUpdated("activateTask", id, getTaskById(tasks', id), mirrorOk)

CompleteTask(id, mirrorOk) ==
    /\ UNCHANGED <<now, issued, feedback, rl, notes, artifacts, calls>>
    /\ IF getTaskById(tasks, id) = {} THEN NotFound("completeTask", id)
       ELSE /\ tasks' = SetCompleted(tasks, id, now)
            /\ MirrorUpdated("completeTask", id, getTaskById(tasks', id), mirrorOk)

CancelTask(id, mirrorOk) ==
    /\ UNCHANGED <<now, issued, feedback, rl, notes, artifacts, calls>>
    /\ IF getTaskById(tasks, id) = {} THEN NotFound("cancelTask", id)
       ELSE /\ tasks' = SetCancelled(tasks, id)
            /\ MirrorUpdated("cancelTask", id, getTaskById(tasks', id), mirrorOk)

DeleteTaskAlwaysTrue(id, mirrorOk) ==
    LET found == getTaskById(tasks, id)
    IN  /\ UNCHANGED <<now, issued, feedback, rl, notes, artifacts, calls>>
        /\ tasks' = tasks \ found
        /\ vault' = IF found # {} /\ mirrorOk
                    THEN deleteTaskFromVault(vault, CHOOSE t \in found : TRUE)
                    ELSE vault
        /\ ret' = Returned("deleteTask", id, "", {}, <<>>, TRUE,
                           IF found # {} THEN "remove" ELSE "none")

DeleteTask(id, mirrorOk) ==
    LET found == getTaskById(tasks, id)
    IN  /\ UNCHANGED <<now, issued, feedback, rl, notes, artifacts, calls>>
        /\ IF found = {} THEN NotFound("deleteTask", id)
           ELSE /\ tasks' = tasks \ found
                /\ vault' = IF mirrorOk
                            THEN deleteTaskFromVault(vault, CHOOSE t \in found : TRUE)
                            ELSE vault
                /\ ret' = Returned("deleteTask", id, "", {}, <<>>, TRUE, "remove")

(***************************************************************************)
(* services/tasks: getQueuedTasks                                          *)
(***************************************************************************)
\* CASE priority WHEN 'CRITICAL' THEN 0 ... END
PriorityRank(priority) ==
    CASE priority = "CRITICAL" -> 0
      [] priority = "HIGH" -> 1
      [] priority = "NORMAL" -> 2
      [] priority = "LOW" -> 3

QueueOrderNewestFirst(a, b) ==
    \/ PriorityRank(a.priority) < PriorityRank(b.priority)
    \/ /\ PriorityRank(a.priority) = PriorityRank(b.priority)
       /\ a.created_at >= b.created_at

\* ORDER BY rank, created_at ASC: a may come before b
QueueOrder(a, b) ==
    \/ PriorityRank(a.priority) < PriorityRank(b.priority)
    \/ /\ PriorityRank(a.priority) = PriorityRank(b.priority)
       /\ a.created_at <= b.created_at

\* the orders in which a SELECT with that ORDER BY can return the rows
\* (rows that compare equal come in any order)
Orderings(rows) ==
    {s \in [1..Cardinality(rows) -> rows] :
        /\ \A i, j \in DOMAIN s : i # j => s[i] # s[j]
        /\ \A i, j \in DOMAIN s : i < j => QueueOrder(s[i], s[j])}

\* LIMIT n: the first n rows; SQLite reads a negative n as no limit
Limit(s, n) == IF n < 0 \/ n >= Len(s) THEN s ELSE SubSeq(s, 1, n)

getQueuedTasks(rows, project, limit) ==
    LET sanitizedProject == sanitizeProjectName(project)
        queued == {t \in rows : t.project = sanitizedProject /\ t.status = "queued"}
    IN  {Limit(s, limit) : s \in Orderings(queued)}

GetQueuedTasks(project, limit) ==
    /\ \E list \in getQueuedTasks(tasks, project, limit) :
          ret' = Returned("getQueuedTasks", <<project, limit>>, "", {}, list, FALSE, "none")
    /\ UNCHANGED <<tasks, vault, now, issued, feedback, rl, notes, artifacts, calls>>

\* time passes between two operations: the clock moves on to a later instant
Tick(instants) ==
    /\ \E t \in instants : t > now /\ now' = t
    /\ UNCHANGED <<tasks, vault, issued, ret, feedback, rl, notes, artifacts, calls>>

(***************************************************************************)
(* The task engine: operations run to completion, one at a time.           *)
(***************************************************************************)
Title == <<"t">>

TaskInput(project, trust_level, priority) ==
    [title |-> Title, project |-> project, trust_level |-> trust_level, priority |-> priority]

\* the ids callers hold: those createTask returned
IdInputs == {issued[i].id : i \in DOMAIN issued}

\* the concurrent callers of the task engine
Callers == {"c1", "c2"}

Idle == [pc |-> "idle", op |-> "", arg |-> <<>>, id |-> <<>>, project |-> <<>>, at |-> 0,
         error |-> "", rows |-> {}]

NoCalls == [c \in Callers |-> Idle]

NoLimit == [op |-> "init", userId |-> "", at |-> 0, at2 |-> 0, allowed |-> TRUE,
            remaining |-> 0, limit |-> 0, resetIn |-> NULL]

Init ==
    /\ tasks = {}
    /\ vault = {}
    /\ now = 0
    /\ issued = <<>>
    /\ ret = NoReturn
    /\ feedback = <<>>
    /\ rl = NoLimit
    /\ notes = <<>>
    /\ artifacts = <<>>
    /\ calls = NoCalls


\* Lifecycle: two projects, every operation that writes a task.
LifecycleInputs ==
    {TaskInput(<<"a">>, Undefined, Undefined),
     TaskInput(<<"B", " ">>, "MATURE", "HIGH")}

\* the instants (ms) at which task operations run
TaskInstants == {0, 1}

Next ==
    \/ \E input \in LifecycleInputs : Len(issued) < MaxCreates /\ CreateTask(input, TRUE)
    \/ \E id \in IdInputs : ActivateTask(id, TRUE)
    \/ \E id \in IdInputs : CompleteTask(id, TRUE)
    \/ \E id \in IdInputs : CancelTask(id, TRUE)
    \/ \E id \in IdInputs : DeleteTask(id, TRUE)
    \/ Tick(TaskInstants)

Spec == Init /\ [][Next]_vars

\* Identifier allocation: creations and deletions over projects whose id
\* prefixes overlap under LIKE.
IdProjects == {<<"a">>, <<"a", "-", "2">>, <<"b">>}

NextIds ==
    \/ \E project \in IdProjects :
          Len(issued) < MaxIssued /\ CreateTask(TaskInput(project, Undefined, Undefined), TRUE)
    \/ \E id \in IdInputs : DeleteTask(id, TRUE)

SpecIds == Init /\ [][NextIds]_vars

\* Queue reads: tasks of every priority, some of them not queued.
QueueProjects == {<<"a">>, <<"B", " ">>}

QueueInputs ==
    {TaskInput(<<"a">>, Undefined, p) : p \in {Undefined, "LOW", "HIGH", "CRITICAL"}}
      \cup {TaskInput(<<"B", " ">>, Undefined, "NORMAL")}

Limits == 0..MaxLimit

NextQueue ==
    \/ \E input \in QueueInputs : Len(issued) < MaxCreates /\ CreateTask(input, TRUE)
    \/ \E id \in IdInputs : ActivateTask(id, TRUE)
    \/ \E project \in QueueProjects, limit \in Limits : GetQueuedTasks(project, limit)
    \/ Tick(TaskInstants)

SpecQueue == Init /\ [][NextQueue]_vars

\* Creation: inputs as callers of createTask can pass them, some with a
\* project the sanitizer changes or empties, one with an over-long title.
CreateInput(title, project, trust_level, priority) ==
    [title |-> title, project |-> project, trust_level |-> trust_level, priority |-> priority]

LongTitle == [i \in 1..(TitleLimit + 1) |-> IF i <= TitleLimit THEN "t" ELSE "z"]

CreateInputs ==
    {CreateInput(Title, <<"a">>, Undefined, Undefined),
     CreateInput(Title, <<"a", "_", "b", "-", "1">>, "THROWAWAY", "CRITICAL"),
     CreateInput(Title, <<"B", " ">>, "MATURE", "HIGH"),
     CreateInput(Title, <<"b">>, Undefined, "NORMAL"),
     CreateInput(LongTitle, <<"a">>, Undefined, "LOW"),
     CreateInput(Title, <<"!", " ">>, Undefined, Undefined),
     CreateInput(Title, <<>>, "MATURE", Undefined)}

NextCreate ==
    \/ \E input \in CreateInputs : Len(issued) < MaxCreates /\ CreateTask(input, TRUE)
    \/ Tick(TaskInstants)

SpecCreate == Init /\ [][NextCreate]_vars

\* The mirror: every operation that writes a task, its mirror call at the
\* end succeeding or throwing.  An operation mirrors the one task it wrote,
\* so one task is created.
MirrorInputs == {TaskInput(<<"a">>, Undefined, Undefined)}

NextMirror ==
    \/ \E input \in MirrorInputs, mirrorOk \in BOOLEAN :
          issued = <<>> /\ CreateTask(input, mirrorOk)
    \/ \E id \in IdInputs, mirrorOk \in BOOLEAN : ActivateTask(id, mirrorOk)
    \/ \E id \in IdInputs, mirrorOk \in BOOLEAN : CompleteTask(id, mirrorOk)
    \/ \E id \in IdInputs, mirrorOk \in BOOLEAN : CancelTask(id, mirrorOk)
    \/ \E id \in IdInputs, mirrorOk \in BOOLEAN : DeleteTask(id, mirrorOk)
    \/ Tick(TaskInstants)

SpecMirror == Init /\ [][NextMirror]_vars

(***************************************************************************)
(* services/tasks under concurrent callers: createTask and activateTask    *)
(* taken statement by statement, the statements of two calls interleaving. *)
(***************************************************************************)
Call(pc, op, arg, id, project, at, error, rows) ==
    [pc |-> pc, op |-> op, arg |-> arg, id |-> id, project |-> project, at |-> at,
     error |-> error, rows |-> rows]

\* a caller that has no call in flight
Free(c) == calls[c].pc \in {"idle", "done"}

PrimaryKeyUnchecked(rows, id) == FALSE

\* id TEXT PRIMARY KEY: an INSERT of an id that a row carries fails
PrimaryKeyTaken(rows, id) == getTaskById(rows, id) # {}

\* createTask up to the INSERT: the project is sanitized, generateTaskId
\* reads the highest suffix, the clock is read
BeginCreate(c, input) ==
    LET project == sanitizeProjectName(input.project)
    IN  /\ Free(c)
        /\ IF project = <<>>
           THEN /\ calls' = [calls EXCEPT ![c] =
                               Call("done", "createTask", input, <<>>, project, now,
                                    "Project is required", {})]
                /\ ret' = Returned("createTask", input.project, "Project is required",
                                   {}, <<>>, FALSE, "none")
           ELSE /\ \E id \in generateTaskId(tasks, project) :
                      calls' = [calls EXCEPT ![c] =
                                  Call("insert", "createTask", input, id, project, now, "", {})]
                /\ UNCHANGED ret
        /\ UNCHANGED <<tasks, vault, now, issued, feedback, rl, notes, artifacts>>

\* createTask from the INSERT on: the row is written unless its id is
\* taken, read back, mirrored and returned
InsertCreate(c) ==
    LET call == calls[c]
        task == NewTask(call.id, call.arg, call.project, call.at)
    IN  /\ call.pc = "insert"
        /\ IF PrimaryKeyTaken(tasks, call.id)
           THEN /\ calls' = [calls EXCEPT ![c] = [call EXCEPT !.pc = "done",
                                                              !.error = "SQLITE_CONSTRAINT"]]
                /\ ret' = Returned("createTask", call.arg.project, "SQLITE_CONSTRAINT",
                                   {}, <<>>, FALSE, "none")
                /\ UNCHANGED <<tasks, vault, issued>>
           ELSE /\ tasks' = tasks \cup {task}
                /\ vault' = syncTaskToVault(vault, task)
                /\ issued' = Append(issued, [project |-> call.project, id |-> call.id])
                /\ calls' = [calls EXCEPT ![c] = [call EXCEPT !.pc = "done", !.rows = {task}]]
                /\ ret' = Returned("createTask", call.arg.project, "", {task}, <<>>,
                                   FALSE, "sync")
        /\ UNCHANGED <<now, feedback, rl, notes, artifacts>>

\* activateTask up to its first UPDATE: the task is read and its status
\* checked
BeginActivate(c, id) ==
    LET found == getTaskById(tasks, id)
        task == CHOOSE t \in found : TRUE
    IN  /\ Free(c)
        /\ IF found = {}
           THEN /\ calls' = [calls EXCEPT ![c] =
                               Call("done", "activateTask", id, id, <<>>, now, "", {})]
                /\ ret' = Returned("activateTask", id, "", {}, <<>>, FALSE, "none")
           ELSE IF CannotActivate(task.status)
           THEN /\ calls' = [calls EXCEPT ![c] =
                               Call("done", "activateTask", id, id, task.project, now,
                                    "Cannot activate task", {})]
                /\ ret' = Returned("activateTask", id, "Cannot activate task",
                                   {}, <<>>, FALSE, "none")
           ELSE /\ calls' = [calls EXCEPT ![c] =
                               Call("demote", "activateTask", id, id, task.project, now, "", {})]
                /\ UNCHANGED ret
        /\ UNCHANGED <<tasks, vault, now, issued, feedback, rl, notes, artifacts>>

\* activateTask, first UPDATE: the active tasks of the project are demoted
DemoteOthers(c) ==
    /\ calls[c].pc = "demote"
    /\ tasks' = DemoteActive(tasks, calls[c].project)
    /\ calls' = [calls EXCEPT ![c] = [calls[c] EXCEPT !.pc = "activate"]]
    /\ UNCHANGED <<vault, now, issued, ret, feedback, rl, notes, artifacts>>

\* activateTask from its second UPDATE on: the task is set active, read
\* back, mirrored and returned
WriteActive(c) ==
    LET call == calls[c]
        updated == getTaskById(tasks', call.id)
    IN  /\ call.pc = "activate"
        /\ tasks' = SetActive(tasks, call.id, now)
        /\ vault' = IF updated # {} THEN syncTaskToVault(vault, CHOOSE t \in updated : TRUE)
                    ELSE vault
        /\ calls' = [calls EXCEPT ![c] = [call EXCEPT !.pc = "done", !.rows = updated]]
        /\ ret' = Returned("activateTask", call.id, "", updated, <<>>, FALSE,
                           IF updated # {} THEN "sync" ELSE "none")
        /\ UNCHANGED <<now, issued, feedback, rl, notes, artifacts>>

\* Concurrent creation: two callers create tasks of one id prefix.
ConcurrentInputs ==
    {TaskInput(<<"a">>, Undefined, Undefined), TaskInput(<<"A">>, Undefined, "HIGH")}

\* the calls that have read the highest suffix and not yet inserted
Inserting == {c \in Callers : calls[c].pc = "insert"}

NextConcurrentCreate ==
    \/ \E c \in Callers, input \in ConcurrentInputs :
          Len(issued) + Cardinality(Inserting) < MaxCreates /\ BeginCreate(c, input)
    \/ \E c \in Callers : InsertCreate(c)
    \/ Tick(TaskInstants)

SpecConcurrentCreate == Init /\ [][NextConcurrentCreate]_vars

\* Concurrent activation: tasks of one project, created one at a time, are
\* activated by two callers.
NextConcurrentActivate ==
    \/ \E input \in MirrorInputs : Len(issued) < MaxCreates /\ CreateTask(input, TRUE)
    \/ \E c \in Callers, id \in IdInputs : BeginActivate(c, id)
    \/ \E c \in Callers : DemoteOthers(c)
    \/ \E c \in Callers : WriteActive(c)

SpecConcurrentActivate == Init /\ [][NextConcurrentActivate]_vars

(***************************************************************************)
(* services/feedback: checkRateLimit and createFeedback                    *)
(***************************************************************************)
DAILY_LIMIT == 2
DAY_IN_SECONDS == 86400
MsPerSecond == 1000

Max(a, b) == IF a >= b THEN a ELSE b

\* Math.ceil(a / b) for an integer a and a positive integer b
Ceil(a, b) == -((-a) \div b)

MaxOf(S) == CHOOSE x \in S : \A y \in S : y <= x

MinOf(S) == CHOOSE x \in S : \A y \in S : x <= y

WindowRowsInclusive(rows, userId, oneDayAgo) ==
    {i \in DOMAIN rows : rows[i].user_id = userId /\ rows[i].created_at >= oneDayAgo}

WindowRowsOfAnyUser(rows, userId, oneDayAgo) ==
    {i \in DOMAIN rows : rows[i].created_at > oneDayAgo}

\* WHERE user_id = ? AND created_at > ?
WindowRows(rows, userId, oneDayAgo) ==
    {i \in DOMAIN rows : rows[i].user_id = userId /\ rows[i].created_at > oneDayAgo}

RemainingOffByOne(used) == Max(0, DAILY_LIMIT + 1 - used)

\* Math.max(0, DAILY_LIMIT - used)
Remaining(used) == Max(0, DAILY_LIMIT - used)

NewestInWindow(rows, window) == MaxOf({rows[i].created_at : i \in window})

\* SELECT MIN(created_at) over the window
OldestInWindow(rows, window) == MinOf({rows[i].created_at : i \in window})

ResetInRoundedDown(oldest, t) ==
    Max(0, (oldest + DAY_IN_SECONDS * MsPerSecond - t) \div MsPerSecond)

\* Math.ceil((resetAt.getTime() - Date.now()) / 1000), then Math.max(0, .)
ResetIn(oldest, t) == Max(0, Ceil(oldest + DAY_IN_SECONDS * MsPerSecond - t, MsPerSecond))

\* checkRateLimit(userId): t1 is the Date.now() the window is computed from,
\* t2 the Date.now() read when the reset time is computed
checkRateLimit(rows, userId, t1, t2) ==
    LET oneDayAgo == t1 - DAY_IN_SECONDS * MsPerSecond
        window == WindowRows(rows, userId, oneDayAgo)
        used == Cardinality(window)
        last_submitted == IF window = {} THEN NULL
                          ELSE MaxOf({rows[i].created_at : i \in window})
        remaining == Remaining(used)
    IN  IF remaining = 0 /\ last_submitted # NULL
        THEN [allowed |-> FALSE, remaining |-> 0, limit |-> DAILY_LIMIT,
              resetIn |-> ResetIn(OldestInWindow(rows, window), t2)]
        ELSE [allowed |-> TRUE, remaining |-> remaining, limit |-> DAILY_LIMIT,
              resetIn |-> NULL]

createFeedbackChecked(rows, userId, t) ==
    IF Cardinality(WindowRows(rows, userId, t - DAY_IN_SECONDS * MsPerSecond)) < DAILY_LIMIT
    THEN Append(rows, [user_id |-> userId, created_at |-> t])
    ELSE rows

\* createFeedback: INSERT INTO feedback (..., user_id, ..., created_at)
createFeedback(rows, userId, t) == Append(rows, [user_id |-> userId, created_at |-> t])

Limited(op, userId, t1, t2, result) ==
    [op |-> op, userId |-> userId, at |-> t1, at2 |-> t2, allowed |-> result.allowed,
     remaining |-> result.remaining, limit |-> result.limit, resetIn |-> result.resetIn]

\* the instants (ms) at which feedback requests run: around the start, one
\* hour in, and around one and two days in
Hour == 3600 * MsPerSecond
Day == DAY_IN_SECONDS * MsPerSecond
TimePoints == {0, 1, 2, Hour, Day, Day + 1, Day + 2, Day + Hour, 2 * Day + 1}

\* the clock may or may not move on by a millisecond between two reads
Elapsed == {0, 1}

\* a call of checkRateLimit on its own
CheckRateLimit(userId, d) ==
    /\ now + d \in TimePoints
    /\ now' = now + d
    /\ rl' = Limited("checkRateLimit", userId, now, now + d,
                     checkRateLimit(feedback, userId, now, now + d))
    /\ UNCHANGED <<tasks, vault, issued, ret, feedback, notes, artifacts, calls>>

\* POST /api/v1/feedback: the row is written only when the check allows it
SubmitFeedback(userId, d1, d2) ==
    LET rateLimit == checkRateLimit(feedback, userId, now, now + d1)
        t == now + d1 + d2
    IN  /\ t \in TimePoints
        /\ now' = t
        /\ rl' = Limited("submit", userId, now, now + d1, rateLimit)
        /\ feedback' = IF rateLimit.allowed THEN createFeedback(feedback, userId, t)
                       ELSE feedback
        /\ UNCHANGED <<tasks, vault, issued, ret, notes, artifacts, calls>>

Users == {"u1", "u2"}

NextFeedback ==
    \/ \E userId \in Users, d \in Elapsed : CheckRateLimit(userId, d)
    \/ \E userId \in Users, d1, d2 \in Elapsed :
          Len(feedback) < MaxFeedback /\ SubmitFeedback(userId, d1, d2)
    \/ Tick(TimePoints)

SpecFeedback == Init /\ [][NextFeedback]_vars

\* a call of createFeedback on its own, the way any caller of the service
\* other than the route may make it: created_at is the clock read in the call
CreateFeedback(userId, d) ==
    /\ now + d \in TimePoints
    /\ now' = now + d
    /\ feedback' = createFeedback(feedback, userId, now + d)
    /\ rl' = [NoLimit EXCEPT !.op = "createFeedback", !.userId = userId,
                             !.at = now + d, !.at2 = now + d]
    /\ UNCHANGED <<tasks, vault, issued, ret, notes, artifacts, calls>>

\* the feedback service with both of its entry points in use
NextService ==
    \/ \E userId \in Users, d \in Elapsed : CheckRateLimit(userId, d)
    \/ \E userId \in Users, d \in Elapsed :
          Len(feedback) < MaxFeedback /\ CreateFeedback(userId, d)
    \/ Tick(TimePoints)

SpecService == Init /\ [][NextService]_vars

(***************************************************************************)
(* services/search: snippets and scores.  Positions are counted from 0, as *)
(* the code counts them.                                                   *)
(***************************************************************************)
\* the maxLength createSnippet takes when the caller passes none
SnippetLength == 150

Ellipsis == <<".", ".", ".">>

\* String.prototype.slice(start, end), for 0 <= start and 0 <= end
Slice(s, start, end) ==
    LET to == IF end > Len(s) THEN Len(s) ELSE end
    IN  IF start >= to THEN <<>> ELSE SubSeq(s, start + 1, to)

\* search occurs in s at position p
OccursAt(s, search, p) ==
    /\ p >= 0
    /\ p + Len(search) <= Len(s)
    /\ SubSeq(s, p + 1, p + Len(search)) = search

\* String.prototype.indexOf(search, from): -1 when there is no occurrence
indexOf(s, search, from) ==
    LET found == {p \in from..Len(s) : OccursAt(s, search, p)}
    IN  IF found = {} THEN -1 ELSE CHOOSE p \in found : \A r \in found : p <= r

\* String.prototype.lastIndexOf(search, from): the last occurrence at or
\* before position from
lastIndexOf(s, search, from) ==
    LET found == {p \in 0..from : OccursAt(s, search, p)}
    IN  IF found = {} THEN -1 ELSE CHOOSE p \in found : \A r \in found : r <= p

includes(s, search) == indexOf(s, search, 0) # -1

startsWith(s, search) == OccursAt(s, search, 0)

\* String.prototype.trim(), the white space modelled being the blank
RECURSIVE trim(_)
trim(s) ==
    IF s # <<>> /\ s[1] = " " THEN trim(Tail(s))
    ELSE IF s # <<>> /\ s[Len(s)] = " " THEN trim(SubSeq(s, 1, Len(s) - 1))
    ELSE s

\* Math.floor((maxLength - searchTerm.length) / 2)
SnippetRadius(maxLength, searchTerm) == (maxLength - Len(searchTerm)) \div 2

createSnippet(text, searchTerm, maxLength) ==
    LET lowerText == toLowerCase(text)
        lowerSearch == toLowerCase(searchTerm)
        index == indexOf(lowerText, lowerSearch, 0)
        snippetRadius == SnippetRadius(maxLength, searchTerm)
        start0 == Max(0, index - snippetRadius)
        end0 == IF index + Len(searchTerm) + snippetRadius < Len(text)
                THEN index + Len(searchTerm) + snippetRadius ELSE Len(text)
        spaceAfterStart == indexOf(text, <<" ">>, start0)
        start == IF start0 > 0 /\ spaceAfterStart # -1 /\ spaceAfterStart < index
                 THEN spaceAfterStart + 1 ELSE start0
        spaceBeforeEnd == lastIndexOf(text, <<" ">>, end0)
        end == IF end0 < Len(text) /\ spaceBeforeEnd > index + Len(searchTerm)
               THEN spaceBeforeEnd ELSE end0
    IN  IF index = -1 THEN truncate(text, maxLength)
        ELSE (IF start > 0 THEN Ellipsis ELSE <<>>)
               \o Slice(text, start, end)
               \o (IF end < Len(text) THEN Ellipsis ELSE <<>>)

\* the while loop of calculateScore: the occurrences counted from position
\* pos on, each one starting where the one before ended
RECURSIVE CountOccurrences(_, _, _)
CountOccurrences(s, search, pos) ==
    LET at == indexOf(s, search, pos)
    IN  IF at = -1 THEN 0 ELSE 1 + CountOccurrences(s, search, at + Len(search))

\* \w of a regular expression
WordChar(c) == c \in Range(LowerLetters) \cup Range(UpperLetters) \cup Range(Digits) \cup {"_"}

\* \b at position p of s: exactly one of the characters around it is a \w
WordBoundary(s, p) ==
    (p > 0 /\ WordChar(s[p])) # (p < Len(s) /\ WordChar(s[p + 1]))

\* new RegExp('\\b' + escapeRegex(lowerSearch) + '\\b', 'i').test(text)
WordPatternTest(text, lowerSearch) ==
    \E p \in 0..Len(text) :
        /\ OccursAt(toLowerCase(text), lowerSearch, p)
        /\ WordBoundary(text, p)
        /\ WordBoundary(text, p + Len(lowerSearch))

\* Scores are IEEE-754 doubles.  Every double the computation meets is a
\* multiple of 0.1 rounded to double, or one unit in the last place off it:
\* <<t, u>> is the double u units in the last place above the one written
\* t/10 (0.6000000000000001 is <<6, 1>>, 0.8999999999999999 is <<9, -1>>).
DoubleLess(x, y) == x[1] < y[1] \/ (x[1] = y[1] /\ x[2] < y[2])

DoubleMin(x, y) == IF DoubleLess(y, x) THEN y ELSE x

One == <<10, 0>>

\* count * 0.2, in double arithmetic, for the counts up to 11
TimesFifth(count) == IF count \in {3, 6, 7} THEN <<2 * count, 1>> ELSE <<2 * count, 0>>

\* x + 0.3, in double arithmetic, for the doubles min(count * 0.2, 1.0)
PlusStartBoost(x) == IF x = <<6, 1>> THEN <<9, 1>> ELSE <<x[1] + 3, 0>>

\* x + 0.2, in double arithmetic, for the doubles the step before yields
PlusWordBoost(x) ==
    CASE x = <<4, 0>> -> <<6, 1>>
      [] x = <<7, 0>> -> <<9, -1>>
      [] x = <<6, 1>> -> <<8, 0>>
      [] x = <<9, 1>> -> <<11, 0>>
      [] OTHER -> <<x[1] + 2, 0>>

calculateScoreUnclamped(text, searchTerm) ==
    LET lowerText == toLowerCase(text)
        lowerSearch == toLowerCase(searchTerm)
        count == CountOccurrences(lowerText, lowerSearch, 0)
        base == DoubleMin(TimesFifth(count), One)
        started == IF startsWith(lowerText, lowerSearch) THEN PlusStartBoost(base) ELSE base
    IN  IF WordPatternTest(text, lowerSearch) THEN PlusWordBoost(started) ELSE started

calculateScore(text, searchTerm) ==
    LET lowerText == toLowerCase(text)
        lowerSearch == toLowerCase(searchTerm)
        count == CountOccurrences(lowerText, lowerSearch, 0)
        base == DoubleMin(TimesFifth(count), One)
        started == IF startsWith(lowerText, lowerSearch) THEN PlusStartBoost(base) ELSE base
        worded == IF WordPatternTest(text, lowerSearch) THEN PlusWordBoost(started) ELSE started
    IN  DoubleMin(worded, One)

(***************************************************************************)
(* services/search: search                                                 *)
(***************************************************************************)
\* the limit search takes when the query carries none (NULL here)
DefaultLimit == 20

\* the types of a query that names none
AllTypes == {Undefined}

\* WHERE content LIKE ? [AND project = ?]
NoteMatches(row, searchTerm, project) ==
    /\ Like(searchTerm, row.content)
    /\ (project # NullText => row.project = project)

\* WHERE title LIKE ? OR content LIKE ? [AND project = ?]: AND binds
\* tighter than OR
ArtifactMatches(row, searchTerm, project) ==
    \/ Like(searchTerm, row.title)
    \/ /\ Like(searchTerm, row.content)
       /\ (project # NullText => row.project = project)

\* WHERE title LIKE ? OR description LIKE ? [AND project = ?]; a NULL
\* description matches nothing
TaskMatches(row, searchTerm, project) ==
    \/ Like(searchTerm, row.title)
    \/ /\ row.description # NullText
       /\ Like(searchTerm, row.description)
       /\ (project # NullText => row.project = project)

SearchResult(type, id, snippet, score, project) ==
    [type |-> type, id |-> id, snippet |-> snippet, score |-> score, project |-> project]

NoteResult(row, q) ==
    SearchResult("note", row.id, createSnippet(row.content, q, SnippetLength),
                 calculateScore(row.content, q), row.project)

ArtifactResult(row, q) ==
    LET matchText == IF includes(toLowerCase(row.title), toLowerCase(q))
                     THEN row.title ELSE row.content
    IN  SearchResult("artifact", row.id, createSnippet(matchText, q, SnippetLength),
                     calculateScore(row.title \o <<" ">> \o row.content, q), row.project)

TaskResult(row, q) ==
    LET matchText == IF includes(toLowerCase(row.title), toLowerCase(q))
                     THEN row.title
                     ELSE IF row.description # NullText THEN row.description ELSE row.title
        description == IF row.description # NullText THEN row.description ELSE <<>>
    IN  SearchResult("task", row.id, createSnippet(matchText, q, SnippetLength),
                     calculateScore(row.title \o <<" ">> \o description, q), row.project)

\* the orders in which a SELECT without ORDER BY can return a set of rows
FetchOrders(rows) ==
    {s \in [1..Cardinality(rows) -> rows] : \A i, j \in DOMAIN s : i # j => s[i] # s[j]}

InsertBeforeEqual(sorted, r) ==
    LET ahead == {i \in DOMAIN sorted : DoubleLess(r.score, sorted[i].score)}
    IN  SubSeq(sorted, 1, Cardinality(ahead)) \o <<r>>
          \o SubSeq(sorted, Cardinality(ahead) + 1, Len(sorted))

\* where the stable sort puts r into a list sorted by (a, b) => b.score -
\* a.score when r came after every element of the list: behind the elements
\* whose score is not lower
InsertByScore(sorted, r) ==
    LET ahead == {i \in DOMAIN sorted : ~DoubleLess(sorted[i].score, r.score)}
    IN  SubSeq(sorted, 1, Cardinality(ahead)) \o <<r>>
          \o SubSeq(sorted, Cardinality(ahead) + 1, Len(sorted))

\* results.sort((a, b) => b.score - a.score)
RECURSIVE SortByScore(_)
SortByScore(results) ==
    IF results = <<>> THEN <<>>
    ELSE InsertByScore(SortByScore(SubSeq(results, 1, Len(results) - 1)),
                       results[Len(results)])

\* search(query) over the three tables, the tasks coming from the store in
\* the order taskOrder: the candidates in scan order, and the results
search(noteRows, artifactRows, taskOrder, query) ==
    LET q == query.q
        limit == IF query.limit = NULL THEN DefaultLimit ELSE query.limit
        searchTerm == <<"%">> \o q \o <<"%">>
        searching(type) == query.types = AllTypes \/ type \in query.types
        project == IF query.project = <<>> THEN NullText ELSE query.project
        foundNotes ==
            IF searching("notes")
            THEN Limit(SelectSeq(noteRows, LAMBDA r : NoteMatches(r, searchTerm, project)), limit)
            ELSE <<>>
        foundArtifacts ==
            IF searching("artifacts")
            THEN Limit(SelectSeq(artifactRows,
                                 LAMBDA r : ArtifactMatches(r, searchTerm, project)), limit)
            ELSE <<>>
        foundTasks ==
            IF searching("tasks")
            THEN Limit(SelectSeq(taskOrder, LAMBDA r : TaskMatches(r, searchTerm, project)), limit)
            ELSE <<>>
        results == [i \in DOMAIN foundNotes |-> NoteResult(foundNotes[i], q)]
                     \o [i \in DOMAIN foundArtifacts |-> ArtifactResult(foundArtifacts[i], q)]
                     \o [i \in DOMAIN foundTasks |-> TaskResult(foundTasks[i], q)]
    IN  IF trim(q) = <<>> THEN [candidates |-> <<>>, results |-> <<>>]
        ELSE [candidates |-> results, results |-> Slice(SortByScore(results), 0, limit)]

Search(query) ==
    /\ \E taskOrder \in FetchOrders(tasks) :
          LET found == search(notes, artifacts, taskOrder, query)
          IN  ret' = Returned("search", query, "", found.candidates, found.results,
                              FALSE, "none")
    /\ UNCHANGED <<tasks, vault, now, issued, feedback, rl, notes, artifacts, calls>>

\* Search: stored notes, artifacts and tasks of two projects, read by
\* queries with and without a project filter.
Note(id, content, project) == [id |-> id, content |-> content, project |-> project]

Artifact(id, title, content, project) ==
    [id |-> id, title |-> title, content |-> content, project |-> project]

\* a task as createTask stores it when the input carries a description
StoredTask(id, title, description, project) ==
    [NewTask(id, [title |-> title, project |-> project, trust_level |-> Undefined,
                  priority |-> Undefined], project, 0)
       EXCEPT !.description = description]

NoteTables ==
    {<<>>,
     <<Note(<<"n", "1">>, <<"x", "a", "b">>, <<"q">>), Note(<<"n", "2">>, <<"a", "b">>, <<"p">>)>>,
     <<Note(<<"n", "3">>, <<"A", "b", " ", "a", "b">>, <<"p">>), Note(<<"n", "4">>, <<"a", "b">>, NullText),
       Note(<<"n", "5">>, <<"a", "b">>, <<"q">>)>>}

ArtifactTables ==
    {<<>>,
     <<Artifact(<<"a", "1">>, <<"a", "b">>, <<"c", "d">>, <<"q">>),
       Artifact(<<"a", "2">>, <<"c", "d">>, <<"a", " ", "a", "b">>, <<"p">>)>>}

TaskTables ==
    {<<>>,
     <<StoredTask(<<"Q", "-", "0", "0", "1">>, <<"a", "b">>, NullText, <<"q">>),
       StoredTask(<<"P", "-", "0", "0", "1">>, <<"t">>, <<"A", "B", " ", "c">>, <<"p">>)>>,
     <<StoredTask(<<"P", "-", "0", "0", "1">>, <<"a", "_", "b">>, <<"a", "b">>, <<"p">>)>>}

SearchTerms == {<<"a", "b">>, <<"A">>, <<"_">>, <<"%">>, <<" ">>}

\* the project filter: <<>> is a filter left out (or empty)
SearchProjects == {<<>>, <<"p">>}

SearchTypes == {AllTypes, {"tasks"}, {"notes", "artifacts"}}

SearchLimits == {NULL} \cup 1..MaxLimit

Queries ==
    [q : SearchTerms, types : SearchTypes, project : SearchProjects, limit : SearchLimits]

InitSearch ==
    /\ \E created \in TaskTables :
          /\ tasks = Range(created)
          /\ vault = Range(created)
          /\ issued = [i \in DOMAIN created |->
                          [project |-> created[i].project, id |-> created[i].id]]
    /\ now = 0
    /\ ret = NoReturn
    /\ feedback = <<>>
    /\ rl = NoLimit
    /\ notes \in NoteTables
    /\ artifacts \in ArtifactTables
    /\ calls = NoCalls

\* a search leaves the store as it is: one search from every store covers
\* every sequence of searches
NextSearch == \E query \in Queries : ret.op = "init" /\ Search(query)

SpecSearch == InitSearch /\ [][NextSearch]_vars

\* Snippets: createSnippet applied to every text, query and maxLength up to
\* the bounds.
MaxTextLength == 4
MaxQueryLength == 2
MaxSnippetLength == 3

TextChars == {"a", "B", " "}

QueryChars == {"a", "b", " "}

\* the strings of the characters chars that have at most n characters
StringsUpTo(chars, n) == UNION {[1..k -> chars] : k \in 0..n}

SnippetInputs ==
    [text : StringsUpTo(TextChars, MaxTextLength),
     searchTerm : StringsUpTo(QueryChars, MaxQueryLength) \ {<<>>},
     maxLength : 1..MaxSnippetLength]

InitSnippet ==
    /\ tasks = {}
    /\ vault = {}
    /\ now = 0
    /\ issued = <<>>
    /\ \E input \in SnippetInputs :
          ret = Returned("snippetInput", input, "", {}, <<>>, FALSE, "none")
    /\ feedback = <<>>
    /\ rl = NoLimit
    /\ notes = <<>>
    /\ artifacts = <<>>
    /\ calls = NoCalls

CreateSnippet ==
    /\ ret.op = "snippetInput"
    /\ ret' = Returned("createSnippet", ret.arg, "", {},
                       createSnippet(ret.arg.text, ret.arg.searchTerm, ret.arg.maxLength),
                       FALSE, "none")
    /\ UNCHANGED <<tasks, vault, now, issued, feedback, rl, notes, artifacts, calls>>

NextSnippet == CreateSnippet

SpecSnippet == InitSnippet /\ [][NextSnippet]_vars

\* calculateScore over the same texts and search terms
CalculateScore ==
    /\ ret.op = "snippetInput"
    /\ ret' = Returned("calculateScore", ret.arg, "", {},
                       calculateScore(ret.arg.text, ret.arg.searchTerm), FALSE, "none")
    /\ UNCHANGED <<tasks, vault, now, issued, feedback, rl, notes, artifacts, calls>>

NextScore == CalculateScore

SpecScore == InitSnippet /\ [][NextScore]_vars

(***************************************************************************)
(* Properties                                                              *)
(***************************************************************************)
Terminal == {"completed", "cancelled"}

ActiveIn(project) == {t \in tasks : t.project = project /\ t.status = "active"}

\* C1: after any sequence of task operations run one at a time, every
\* project has at most one task whose status is active.
C1_AtMostOneActive ==
    \A t \in tasks : Cardinality(ActiveIn(t.project)) <= 1

\* a project with an active task next to one that an activation demoted
C1_Witness ==
    \E t, u \in tasks :
        /\ t.id # u.id
        /\ t.project = u.project
        /\ t.status = "active"
        /\ u.status = "queued"
        /\ u.started_at # NULL

\* the part of an issued id before its "-NNN" suffix
IssuedPrefix(id) ==
    LET p == CHOOSE q \in SuffixMatches(id) : \A r \in SuffixMatches(id) : q <= r
    IN  SubSeq(id, 1, p - 1)

\* C2: for every id prefix, the suffixes createTask hands out are strictly
\* increasing in call order and never handed out twice, also when tasks of
\* that prefix were deleted in between.
C2_SuffixesNeverReused ==
    \A i, j \in DOMAIN issued :
        (i < j /\ IssuedPrefix(issued[i].id) = IssuedPrefix(issued[j].id))
            => SuffixNumber(issued[i].id) < SuffixNumber(issued[j].id)

\* the ids returned for one project, in call order
RECURSIVE IssuedFor(_, _)
IssuedFor(project, history) ==
    IF history = <<>> THEN <<>>
    ELSE IF history[1].project = project
         THEN <<history[1].id>> \o IssuedFor(project, Tail(history))
         ELSE IssuedFor(project, Tail(history))

\* every created task is still stored: no deletion has happened
NoDeletions == Len(issued) = Cardinality(tasks)

\* C3: with no deletions, the N ids createTask returned for a project carry
\* the suffixes 1, 2, ..., N in call order.
C3_SuffixesCountFromOne ==
    NoDeletions =>
        \A h \in DOMAIN issued :
            LET ids == IssuedFor(issued[h].project, issued)
            IN  \A k \in DOMAIN ids : SuffixNumber(ids[k]) = k

\* the rows of a user created in the window (t - 86400 s, t]
RowsInWindow(userId, t) ==
    {i \in DOMAIN feedback :
        /\ feedback[i].user_id = userId
        /\ feedback[i].created_at > t - 86400 * 1000
        /\ feedback[i].created_at <= t}

\* C4: when every row is written by the submission route, every user has at
\* most 2 rows in every window (t - 86400 s, t].
C4_AtMostTwoPerWindow ==
    \A userId \in Users :
        \A t \in TimePoints \cup {feedback[i].created_at : i \in DOMAIN feedback} :
            Cardinality(RowsInWindow(userId, t)) <= 2

\* a user whose third row was admitted once the window had moved on
C4_Witness ==
    \E userId \in Users :
        Cardinality({i \in DOMAIN feedback : feedback[i].user_id = userId}) = 3

\* C5: activateTask on a completed or cancelled task fails with a domain
\* error, leaves every task unchanged and issues no mirror write.
C5_RefusedActivationChangesNothing ==
    [][\A id \in IdInputs :
          (/\ \E t \in tasks : t.id = id /\ t.status \in Terminal
           /\ ActivateTask(id, TRUE))
          => /\ ret'.error = "Cannot activate task"
             /\ ret'.rows = {}
             /\ ret'.mirror = "none"
             /\ tasks' = tasks
             /\ vault' = vault]_vars

\* a refused activation in a project that has an active task to demote
C5_Witness ==
    /\ ret.op = "activateTask"
    /\ ret.error = "Cannot activate task"
    /\ \E t \in tasks :
          /\ t.id = ret.arg
          /\ t.status \in Terminal
          /\ ActiveIn(t.project) # {}

\* C6: once a task is completed or cancelled, no later call changes its
\* status.
C6_TerminalStatusIsFinal ==
    [][\A t \in tasks : \A u \in tasks' :
          (t.status \in Terminal /\ u.id = t.id) => u.status = t.status]_vars

\* C7: once started_at is set, no later operation changes it.
C7_StartedAtIsKept ==
    [][\A t \in tasks : \A u \in tasks' :
          (t.started_at # NULL /\ u.id = t.id) => u.started_at = t.started_at]_vars

\* a task activated first, demoted by a later activation and activated
\* again, still carrying its first started_at
C7_Witness ==
    \E t, u \in tasks :
        /\ t.project = u.project
        /\ t.status = "active"
        /\ u.status = "queued"
        /\ u.started_at # NULL
        /\ t.started_at # NULL
        /\ t.started_at < u.started_at

\* the rank of the claim: CRITICAL < HIGH < NORMAL < LOW
RankOrder == <<"CRITICAL", "HIGH", "NORMAL", "LOW">>

RanksBefore(a, b) ==
    \/ IndexIn(RankOrder, a.priority) < IndexIn(RankOrder, b.priority)
    \/ /\ a.priority = b.priority
       /\ a.created_at < b.created_at

\* C8: getQueuedTasks(project, limit) returns only queued tasks of the
\* project, at most limit of them, in rank order and, within a rank, oldest
\* first; no queued task left out ranks before a returned one.
C8_QueueOrdered ==
    ret.op = "getQueuedTasks" =>
        LET project == sanitizeProjectName(ret.arg[1])
            limit == ret.arg[2]
            list == ret.list
            returned == Range(list)
            queued == {t \in tasks : t.project = project /\ t.status = "queued"}
        IN  /\ returned \subseteq queued
            /\ Len(list) <= limit
            /\ \A i, j \in DOMAIN list : i < j =>
                  /\ list[i] # list[j]
                  /\ ~RanksBefore(list[j], list[i])
            /\ \A q \in queued \ returned : \A r \in returned : ~RanksBefore(q, r)

\* a read cut short by the limit, leaving out a task of a lower rank
C8_Witness ==
    /\ ret.op = "getQueuedTasks"
    /\ Len(ret.list) = 1
    /\ ret.arg[2] = 1
    /\ \E q \in tasks :
          /\ q.project = ret.list[1].project
          /\ q.status = "queued"
          /\ RanksBefore(ret.list[1], q)

\* the number of rows of the user created strictly after t - 86400 s
CountAfter(userId, t) ==
    Cardinality({i \in DOMAIN feedback :
                    feedback[i].user_id = userId /\ feedback[i].created_at > t - 86400 * 1000})

\* C9: checkRateLimit allows exactly when fewer than 2 rows of the user
\* are newer than now - 86400 s; remaining is 2 - count when allowed and 0
\* when not; limit is 2 either way.
C9_AllowedIffBelowLimit ==
    rl.op = "checkRateLimit" =>
        LET count == CountAfter(rl.userId, rl.at)
        IN  /\ rl.allowed <=> count < 2
            /\ rl.allowed => rl.remaining = 2 - count
            /\ ~rl.allowed => rl.remaining = 0
            /\ rl.limit = 2

\* a check that allows because a row lies exactly on the window's edge
C9_Witness ==
    /\ rl.op = "checkRateLimit"
    /\ rl.allowed
    /\ rl.remaining = 1
    /\ \E i, j \in DOMAIN feedback :
          /\ i # j
          /\ feedback[i].user_id = rl.userId
          /\ feedback[j].user_id = rl.userId
          /\ feedback[i].created_at = rl.at - 86400 * 1000

\* the earliest row of the user inside the window the check looked at
OldestSeen == MinOf({feedback[i].created_at :
                        i \in {k \in DOMAIN feedback :
                                  /\ feedback[k].user_id = rl.userId
                                  /\ feedback[k].created_at > rl.at - 86400 * 1000}})

\* r is max(0, ceil(ms / 1000))
IsSecondsCeiling(r, ms) ==
    /\ r >= 0
    /\ r * 1000 >= ms
    /\ r > 0 => (r - 1) * 1000 < ms

Denied == rl.op \in {"checkRateLimit", "submit"} /\ ~rl.allowed

\* C10 as stated: on a denial reset_in is max(0, ceil((oldest + 86400 s -
\* now) / 1 s)), and so lies between 1 and 86400 seconds.
C10_ResetInAtLeastOne ==
    Denied =>
        /\ IsSecondsCeiling(rl.resetIn, OldestSeen + 86400 * 1000 - rl.at2)
        /\ rl.resetIn >= 1
        /\ rl.resetIn <= 86400

\* C10 as amended: on a denial reset_in is max(0, ceil((oldest + 86400 s -
\* now) / 1 s)) with now the clock read after the window query; it lies
\* between 0 and 86400 seconds, is at least 1 when the clock did not move
\* between the two reads, and is at least 86400 - 3600 when the oldest row
\* of the window is at most one hour old.
C10_ResetIn ==
    Denied =>
        /\ IsSecondsCeiling(rl.resetIn, OldestSeen + 86400 * 1000 - rl.at2)
        /\ rl.resetIn >= 0
        /\ rl.resetIn <= 86400
        /\ rl.at2 = rl.at => rl.resetIn >= 1
        /\ rl.at2 - OldestSeen <= 3600 * 1000 => rl.resetIn >= 86400 - 3600
        /\ rl.at2 - OldestSeen = 3600 * 1000 => rl.resetIn = 86400 - 3600

\* a denial one hour after the first of two submissions
C10_Witness ==
    /\ Denied
    /\ rl.at2 - OldestSeen = 3600 * 1000
    /\ rl.resetIn = 82800

\* C11: when search is called with a project filter, every returned result
\* has project equal to the filter value, whichever field matched.
C11_ResultsCarryFilterProject ==
    (ret.op = "search" /\ ret.arg.project # <<>>) =>
        \A i \in DOMAIN ret.list : ret.list[i].project = ret.arg.project

\* the place of a result among the candidates, which are in scan order
ScanPosition(r) == CHOOSE k \in DOMAIN ret.rows : ret.rows[k] = r

ScanRank(type) == CASE type = "note" -> 1 [] type = "artifact" -> 2 [] type = "task" -> 3

\* the limit a search ran with
LimitOf(query) == IF query.limit = NULL THEN 20 ELSE query.limit

\* the place of a note or an artifact in its table
RowPosition(table, id) == CHOOSE k \in DOMAIN table : table[k].id = id

\* C12: search returns at most limit results, sorted by score descending;
\* results of equal score keep scan order (notes, then artifacts, then
\* tasks, each in the order fetched from the store); each type contributes
\* at most limit candidates before the merge, and the results are the
\* candidates that come first in that order.
C12_SortedAndLimited ==
    ret.op = "search" =>
        LET limit == LimitOf(ret.arg)
            list == ret.list
            candidates == ret.rows
            Before(a, b) == \/ DoubleLess(b.score, a.score)
                            \/ a.score = b.score /\ ScanPosition(a) < ScanPosition(b)
        IN  /\ Len(list) <= limit
            /\ Len(list) = limit \/ Len(list) = Len(candidates)
            /\ \A type \in {"note", "artifact", "task"} :
                  Cardinality({k \in DOMAIN candidates : candidates[k].type = type}) <= limit
            /\ \A k, l \in DOMAIN candidates :
                  k < l =>
                    /\ candidates[k] # candidates[l]
                    /\ ScanRank(candidates[k].type) <= ScanRank(candidates[l].type)
                    /\ candidates[k].type = "note" /\ candidates[l].type = "note"
                         => RowPosition(notes, candidates[k].id)
                              < RowPosition(notes, candidates[l].id)
                    /\ candidates[k].type = "artifact" /\ candidates[l].type = "artifact"
                         => RowPosition(artifacts, candidates[k].id)
                              < RowPosition(artifacts, candidates[l].id)
            /\ Range(list) \subseteq Range(candidates)
            /\ \A i, j \in DOMAIN list : i < j => Before(list[i], list[j])
            /\ \A c \in Range(candidates) \ Range(list) : \A r \in Range(list) : Before(r, c)

\* a search cut to two results of equal score, a note ahead of an artifact,
\* that leaves out a lower-scored note scanned before both
C12_Witness ==
    /\ ret.op = "search"
    /\ Len(ret.list) = 2
    /\ Len(ret.rows) > 2
    /\ ret.list[1].score = ret.list[2].score
    /\ ret.list[1].type = "note"
    /\ ret.list[2].type = "artifact"
    /\ ret.rows[1] \notin Range(ret.list)

\* the step leaves the store and hands the caller what a step of Operation
\* from the same state does
SameOutcome(Operation) ==
    \E stored \in {tasks'}, returned \in {ret'}, history \in {issued'} :
        ENABLED (Operation /\ tasks' = stored /\ ret' = returned /\ issued' = history)

\* C13: for createTask, activateTask, completeTask, cancelTask and
\* deleteTask, a call whose mirror call throws returns the value and leaves
\* the store that the same call leaves when its mirror call succeeds: no
\* error reaches the caller, the mutation stays, and the mirror is not
\* written by a second attempt.
C13_MirrorFailureIsSilent ==
    [][/\ \A input \in MirrorInputs :
            (CreateTask(input, FALSE) /\ ret'.mirror # "none")
              => /\ SameOutcome(CreateTask(input, TRUE))
                 /\ ret'.error = ""
                 /\ ret'.rows \subseteq tasks'
                 /\ vault' = vault
       /\ \A id \in IdInputs :
            /\ (ActivateTask(id, FALSE) /\ ret'.mirror # "none")
                 => /\ SameOutcome(ActivateTask(id, TRUE))
                    /\ ret'.error = ""
                    /\ ret'.rows \subseteq tasks'
                    /\ vault' = vault
            /\ (CompleteTask(id, FALSE) /\ ret'.mirror # "none")
                 => /\ SameOutcome(CompleteTask(id, TRUE))
                    /\ ret'.error = ""
                    /\ ret'.rows \subseteq tasks'
                    /\ vault' = vault
            /\ (CancelTask(id, FALSE) /\ ret'.mirror # "none")
                 => /\ SameOutcome(CancelTask(id, TRUE))
                    /\ ret'.error = ""
                    /\ ret'.rows \subseteq tasks'
                    /\ vault' = vault
            /\ (DeleteTask(id, FALSE) /\ ret'.mirror # "none")
                 => /\ SameOutcome(DeleteTask(id, TRUE))
                    /\ ret'.error = ""
                    /\ ret'.flag
                    /\ getTaskById(tasks', id) = {}
                    /\ vault' = vault]_vars

\* a task stored as completed whose file still says queued: the mirror
\* call of its completion failed
C13_Witness ==
    \E t \in tasks : \E f \in vault :
        /\ f.id = t.id
        /\ t.status = "completed"
        /\ f.status = "queued"
        /\ ret.op = "completeTask"
        /\ ret.rows = {t}

\* C14: deleteTask on the id of an existing task returns true and leaves
\* the store without that task and otherwise as it was; deleteTask on the
\* same id again returns false and changes nothing.
C14_DeleteTwice ==
    [][\A id \in IdInputs :
          DeleteTask(id, TRUE) =>
            /\ getTaskById(tasks, id) # {}
                 => /\ ret'.flag
                    /\ ret'.error = ""
                    /\ tasks' = {t \in tasks : t.id # id}
            /\ (ret.op = "deleteTask" /\ ret.flag /\ ret.arg = id)
                 => /\ ~ret'.flag
                    /\ ret'.error = ""
                    /\ tasks' = tasks
                    /\ vault' = vault]_vars

\* a second deleteTask on an id, answered false, another task being stored
C14_Witness ==
    /\ ret.op = "deleteTask"
    /\ ~ret.flag
    /\ ret.error = ""
    /\ ret.arg \in IdInputs
    /\ getTaskById(tasks, ret.arg) = {}
    /\ tasks # {}

\* the task a lookup of the id createTask has just returned yields
LookedUp(t) == \E created \in ret'.rows : getTaskById(tasks', created.id) = {t}

DefaultedTo(value, default) == IF value = "undefined" THEN default ELSE value

\* C15 as stated: createTask followed immediately by a lookup of the
\* returned id yields a task with title, project, trust_level and priority
\* identical to the inputs (PROTOTYPE and NORMAL when omitted) and with
\* status queued.
C15_RoundTripIdentical ==
    [][\A input \in CreateInputs :
          (CreateTask(input, TRUE) /\ ret'.error = "")
            => \E t \in tasks' :
                  /\ LookedUp(t)
                  /\ t.title = input.title
                  /\ t.project = input.project
                  /\ t.trust_level = DefaultedTo(input.trust_level, "PROTOTYPE")
                  /\ t.priority = DefaultedTo(input.priority, "NORMAL")
                  /\ t.status = "queued"]_vars

\* a character of the project-slug grammar [a-z0-9_-]
SlugChar(c) ==
    c \in {"a", "b", "c", "d", "e", "f", "g", "h", "i", "j", "k", "l", "m", "n", "o", "p",
           "q", "r", "s", "t", "u", "v", "w", "x", "y", "z", "0", "1", "2", "3", "4", "5",
           "6", "7", "8", "9", "_", "-"}

\* slug is s in lower case without the characters outside the grammar
RECURSIVE IsSlugOf(_, _)
IsSlugOf(slug, s) ==
    IF s = <<>> THEN slug = <<>>
    ELSE IF SlugChar(ToLowerChar(s[1]))
         THEN slug # <<>> /\ slug[1] = ToLowerChar(s[1]) /\ IsSlugOf(Tail(slug), Tail(s))
         ELSE IsSlugOf(slug, Tail(s))

\* C15 as amended: createTask followed immediately by a lookup of the
\* returned id yields a task whose title is the first 200 characters of the
\* input title, whose project is the input project in lower case without
\* the characters outside [a-z0-9_-], whose trust_level and priority are
\* the inputs (PROTOTYPE and NORMAL when omitted) and whose status is
\* queued; title and project are identical to the inputs when the title has
\* at most 200 characters and the project is already a slug.
C15_RoundTrip ==
    [][\A input \in CreateInputs :
          (CreateTask(input, TRUE) /\ ret'.error = "")
            => \E t \in tasks' :
                  /\ LookedUp(t)
                  /\ Len(t.title) <= 200
                  /\ Len(t.title) = 200 \/ Len(t.title) = Len(input.title)
                  /\ \A i \in DOMAIN t.title : t.title[i] = input.title[i]
                  /\ IsSlugOf(t.project, input.project)
                  /\ (\A i \in DOMAIN input.project : SlugChar(input.project[i]))
                       => t.project = input.project
                  /\ t.trust_level = DefaultedTo(input.trust_level, "PROTOTYPE")
                  /\ t.priority = DefaultedTo(input.priority, "NORMAL")
                  /\ t.status = "queued"]_vars

\* a task just created from a project with a capital and a blank, stored
\* under the slug, next to a task whose title was cut
C15_Witness ==
    /\ ret.op = "createTask"
    /\ ret.error = ""
    /\ ret.arg = <<"B", " ">>
    /\ \E t \in ret.rows : t \in tasks /\ t.project = <<"b">> /\ t.trust_level = "MATURE"
    /\ \E u \in tasks : Len(u.title) = 200 /\ u.trust_level = "PROTOTYPE"

\* C16: createTask with a project that is empty after sanitization fails
\* with an error, allocates no id, inserts no task and issues no mirror
\* write: the store is unchanged.
C16_EmptyProjectRejected ==
    [][\A input \in CreateInputs :
          (CreateTask(input, TRUE) /\ IsSlugOf(<<>>, input.project))
            => /\ ret'.error = "Project is required"
               /\ ret'.rows = {}
               /\ ret'.mirror = "none"
               /\ issued' = issued
               /\ tasks' = tasks
               /\ vault' = vault]_vars

\* a creation refused for the project "! " while a task is stored
C16_Witness ==
    /\ ret.op = "createTask"
    /\ ret.error = "Project is required"
    /\ ret.arg = <<"!", " ">>
    /\ tasks # {}

\* C17: activateTask, completeTask and cancelTask on an id that resolves to
\* no task return null, not an error, and deleteTask returns false; no task
\* in the store is changed and no mirror call is made.
C17_UnknownIdChangesNothing ==
    [][\A id \in IdInputs :
          (/\ getTaskById(tasks, id) = {}
           /\ \/ ActivateTask(id, TRUE)
              \/ CompleteTask(id, TRUE)
              \/ CancelTask(id, TRUE)
              \/ DeleteTask(id, TRUE))
            => /\ ret'.arg = id
               /\ ret'.rows = {}
               /\ ret'.error = ""
               /\ ~ret'.flag
               /\ ret'.mirror = "none"
               /\ tasks' = tasks
               /\ vault' = vault]_vars

\* activateTask answered null for the id of a deleted task whose project
\* has an active task
C17_Witness ==
    /\ ret.op = "activateTask"
    /\ ret.rows = {}
    /\ ret.error = ""
    /\ getTaskById(tasks, ret.arg) = {}
    /\ \E i \in DOMAIN issued : issued[i].id = ret.arg /\ ActiveIn(issued[i].project) # {}

\* the createTask calls that returned a task
CreatedBy(c) == calls[c].op = "createTask" /\ calls[c].pc = "done" /\ calls[c].error = ""

\* C18: when two createTask calls for the same id prefix run concurrently,
\* the read of the highest suffix and the insert interleaving, they never
\* both return the same id, and the store never holds two tasks with the
\* same id.
C18_NoDuplicateIds ==
    /\ \A t, u \in tasks : t.id = u.id => t = u
    /\ \A c, d \in Callers :
          (c # d /\ CreatedBy(c) /\ CreatedBy(d)) => calls[c].id # calls[d].id
    /\ \A c \in Callers : CreatedBy(c) => calls[c].rows = getTaskById(tasks, calls[c].id)

\* two calls read the same highest suffix: one returned the id, the other
\* failed on the primary key
C18_Witness ==
    \E c, d \in Callers :
        /\ CreatedBy(c)
        /\ calls[d].op = "createTask"
        /\ calls[d].pc = "done"
        /\ calls[d].error = "SQLITE_CONSTRAINT"
        /\ calls[d].id = calls[c].id
        /\ Cardinality(tasks) = 1

\* the activateTask calls that returned a task
ActivatedBy(c) == calls[c].op = "activateTask" /\ calls[c].pc = "done" /\ calls[c].rows # {}

\* C19: when two activateTask calls for different non-terminal tasks of
\* one project run concurrently, the status read, the demotion and the
\* activation interleaving, the project has at most one active task once
\* both calls have finished.
C19_AtMostOneActiveAfterBoth ==
    \A c, d \in Callers :
        (c # d /\ ActivatedBy(c) /\ ActivatedBy(d) /\ calls[c].id # calls[d].id
           /\ calls[c].project = calls[d].project)
          => Cardinality(ActiveIn(calls[c].project)) <= 1

\* the query occurs in the text at position p (counted from 0), letters
\* matching regardless of case
MatchesAt(text, query, p) ==
    /\ p + Len(query) <= Len(text)
    /\ \A i \in 1..Len(query) : ToLowerChar(text[p + i]) = ToLowerChar(query[i])

Occurrences(text, query) == {p \in 0..Len(text) : MatchesAt(text, query, p)}

\* the snippet is the part of the text from position from up to position to,
\* with "..." on each side where the text goes on
IsWindow(snippet, text, from, to) ==
    snippet = (IF from > 0 THEN <<".", ".", ".">> ELSE <<>>)
                \o SubSeq(text, from + 1, to)
                \o (IF to < Len(text) THEN <<".", ".", ".">> ELSE <<>>)

\* C20: for every text, every non-empty query that occurs in the text
\* case-insensitively and every maxLength of at least 1, the snippet is a
\* window of the text that contains the first occurrence of the query in
\* full.
C20_SnippetContainsFirstMatch ==
    (ret.op = "createSnippet" /\ Occurrences(ret.arg.text, ret.arg.searchTerm) # {}) =>
        LET text == ret.arg.text
            query == ret.arg.searchTerm
            first == CHOOSE p \in Occurrences(text, query) :
                        \A r \in Occurrences(text, query) : p <= r
        IN  \E from \in 0..first : \E to \in (first + Len(query))..Len(text) :
                IsWindow(ret.list, text, from, to)

\* the searched fields of the stored record a result refers to
SearchedFields(r) ==
    CASE r.type = "note" ->
           {row.content : row \in {n \in Range(notes) : n.id = r.id}}
      [] r.type = "artifact" ->
           UNION {{row.title, row.content} : row \in {a \in Range(artifacts) : a.id = r.id}}
      [] r.type = "task" ->
           UNION {{row.title, row.description} \ {NullText} : row \in {t \in tasks : t.id = r.id}}

\* C21: every result of a search refers to a stored record in which the
\* query text q occurs, compared case-insensitively, as a substring of one
\* of the searched fields (content of a note, title or content of an
\* artifact, title or description of a task), also when q contains the
\* characters % or _.
C21_ResultsContainQuery ==
    ret.op = "search" =>
        \A i \in DOMAIN ret.list :
            \E field \in SearchedFields(ret.list[i]) : Occurrences(field, ret.arg.q) # {}

\* the fields of a task that are written once, at creation
WrittenOnce(t) ==
    <<t.id, t.project, t.title, t.description, t.priority, t.trust_level, t.created_at>>

\* C22: no operation of the task engine (activateTask with its demotion of
\* other tasks, completeTask, cancelTask) changes the id, project, title,
\* priority, trust_level or created_at of a task: after creation only
\* status, started_at and completed_at are written.
C22_WrittenOnceFieldsAreKept ==
    [][\A t \in tasks : \A u \in tasks' :
          u.id = t.id =>
            /\ WrittenOnce(u) = WrittenOnce(t)
            /\ \/ u = t
               \/ ret'.op \in {"activateTask", "completeTask", "cancelTask"}]_vars

\* a task completed after its creation, next to a task of its project that
\* was demoted by an activation and then cancelled
C22_Witness ==
    \E t, u \in tasks :
        /\ t.project = u.project
        /\ t.status = "completed"
        /\ t.created_at < t.completed_at
        /\ u.status = "cancelled"
        /\ u.started_at # NULL
        /\ ret.op = "cancelTask"

\* C23: createFeedback makes no admission check of its own: called
\* directly for a user who already has 2 or more rows inside the
\* current 24-hour window, it still appends a row for that user.
C23_CreateFeedbackAlwaysAppends ==
    [][\A userId \in Users, d \in Elapsed :
          CreateFeedback(userId, d) =>
            /\ Len(feedback') = Len(feedback) + 1
            /\ SubSeq(feedback', 1, Len(feedback)) = feedback
            /\ feedback'[Len(feedback')] = [user_id |-> userId, created_at |-> now']]_vars

\* a direct call that gave a user a third row inside one window, which the
\* check on its own then reports as over the limit
C23_Witness ==
    /\ rl.op = "createFeedback"
    /\ Len(feedback) >= 3
    /\ feedback[Len(feedback)].user_id = rl.userId
    /\ CountAfter(rl.userId, now) >= 3
    /\ ~checkRateLimit(feedback, rl.userId, now, now).allowed

\* the largest number of occurrences of the query in the text no two of
\* which overlap
NonOverlapping(text, query) ==
    LET Apart(chosen) == \A p, r \in chosen : p # r => (p - r >= Len(query) \/ r - p >= Len(query))
        counts == {Cardinality(chosen) :
                      chosen \in {c \in SUBSET Occurrences(text, query) : Apart(c)}}
    IN  CHOOSE n \in counts : \A m \in counts : m <= n

\* a word character of a regular expression: letter, digit or underscore
IsWordChar(c) ==
    \E i \in 1..26 : c = LowerLetters[i] \/ c = UpperLetters[i] \/ c = "_"
                     \/ (i <= 10 /\ c = Digits[i])

\* p is a word boundary of the text: of the characters before and after
\* position p, one is a word character and the other is not or is missing
AtWordBoundary(text, p) ==
    LET before == p >= 1 /\ IsWordChar(text[p])
        after == p < Len(text) /\ IsWordChar(text[p + 1])
    IN  (before /\ ~after) \/ (after /\ ~before)

\* the query occurs in the text between two word boundaries
WholeWord(text, query) ==
    \E p \in Occurrences(text, query) :
        AtWordBoundary(text, p) /\ AtWordBoundary(text, p + Len(query))

\* min(1.0, min(0.2 n, 1.0) + 0.3 [starts] + 0.2 [whole word]), in tenths
ScoreInTenths(text, query) ==
    LET n == NonOverlapping(text, query)
        base == IF 2 * n < 10 THEN 2 * n ELSE 10
        sum == base + (IF MatchesAt(text, query, 0) THEN 3 ELSE 0)
                    + (IF WholeWord(text, query) THEN 2 ELSE 0)
    IN  IF sum < 10 THEN sum ELSE 10

\* C24: the relevance score equals min(1.0, min(0.2 * n, 1.0) + 0.3 if the
\* scored text starts with the query, case-insensitively, + 0.2 if the
\* query occurs as a whole word), n being the number of non-overlapping
\* case-insensitive occurrences of the query; the score being a double, it
\* is the double of that value or the one next to it.  Every text that
\* contains the query scores between 0.2 and 1.0 inclusive.
C24_ScoreFormula ==
    ret.op = "calculateScore" =>
        LET text == ret.arg.text
            query == ret.arg.searchTerm
            score == ret.list
        IN  /\ score[1] = ScoreInTenths(text, query)
            /\ score[2] \in {-1, 0, 1}
            /\ score[1] \in {0, 2, 10} => score[2] = 0
            /\ Occurrences(text, query) # {} =>
                  /\ ~DoubleLess(score, <<2, 0>>)
                  /\ ~DoubleLess(<<10, 0>>, score)

\* a text with three occurrences of the query, the first at its start and
\* as a whole word: 0.6 + 0.3 + 0.2 is cut to 1.0
C24_Witness ==
    /\ ret.op = "calculateScore"
    /\ NonOverlapping(ret.arg.text, ret.arg.searchTerm) = 3
    /\ MatchesAt(ret.arg.text, ret.arg.searchTerm, 0)
    /\ WholeWord(ret.arg.text, ret.arg.searchTerm)
    /\ ret.list = <<10, 0>>

\* C25: every change of a stored task is followed, in the same operation,
\* by a mirror call with the task's state after the change; so when no
\* mirror call fails, after each operation the status last mirrored for
\* every stored task, the tasks demoted by another task's activation
\* included, is its stored status.
C25_MirrorCarriesStoredStatus ==
    \A t \in tasks :
        /\ \E file \in vault : file.id = t.id
        /\ \A file \in vault : file.id = t.id => file.status = t.status

\* C26: with operations running one at a time, a task whose status has
\* become completed or cancelled is never afterwards active or queued:
\* activateTask refuses it, a demotion by another task's activation passes
\* it by, and completeTask and cancelTask leave it completed or cancelled.
C26_TerminalNeverReopens ==
    [][\A t \in tasks : \A u \in tasks' :
          (t.status \in {"completed", "cancelled"} /\ u.id = t.id)
            => u.status \notin {"active", "queued"}]_vars

\* a task that was started and then completed or cancelled, after an
\* activation of another task of its project
C26_Witness ==
    /\ ret.op = "activateTask"
    /\ ret.rows # {}
    /\ \E t, u \in tasks :
          /\ t.status \in {"completed", "cancelled"}
          /\ t.project = u.project
          /\ u.status = "active"
          /\ u.id = ret.arg
          /\ t.started_at # NULL

\* C27: in every reachable state of the task store an active task has
\* started_at set and a completed task has completed_at set; a task that
\* has never been activated has started_at unset: a row is created without
\* started_at, and started_at is set only by the row's own successful
\* activation.
C27_TimestampsFollowStatus ==
    [][\A u \in tasks' :
          /\ u.status = "active" => u.started_at # NULL
          /\ u.status = "completed" => u.completed_at # NULL
          /\ u.started_at # NULL =>
                \/ \E t \in tasks : t.id = u.id /\ t.started_at # NULL
                \/ /\ ret'.op = "activateTask"
                   /\ ret'.arg = u.id
                   /\ ret'.error = ""
                   /\ u.status = "active"
                   /\ \E t \in tasks : t.id = u.id]_vars

\* a task completed without ever having been activated, next to an active
\* task
C27_Witness ==
    \E t, u \in tasks :
        /\ t.status = "completed"
        /\ t.started_at = NULL
        /\ t.completed_at # NULL
        /\ u.status = "active"
        /\ u.started_at # NULL

\* C28: a successful activateTask(id) leaves every task of every other
\* project unchanged; in the task's own project it changes only the target,
\* to active, and the tasks that were active before the call, to queued
\* with their started_at and created_at kept; the other queued, completed
\* and cancelled tasks of the project are untouched.
C28_ActivationFrame ==
    [][\A id \in IdInputs :
          (ret'.rows # {} /\ ret'.arg = id /\ ActivateTask(id, TRUE)) =>
            LET target == CHOOSE t \in tasks : t.id = id
                After(t) == CHOOSE u \in tasks' : u.id = t.id
            IN  /\ {u.id : u \in tasks'} = {t.id : t \in tasks}
                /\ Cardinality(tasks') = Cardinality(tasks)
                /\ After(target).status = "active"
                /\ \A t \in tasks \ {target} :
                      IF t.project = target.project /\ t.status = "active"
                      THEN /\ After(t).status = "queued"
                           /\ After(t).started_at = t.started_at
                           /\ After(t).created_at = t.created_at
                           /\ After(t) = [t EXCEPT !.status = "queued"]
                      ELSE After(t) = t]_vars

\* an activation in a project that holds a task started earlier and put
\* back to queued by a demotion
C28_Witness ==
    /\ ret.op = "activateTask"
    /\ ret.rows # {}
    /\ \E t \in tasks :
          /\ t.id # ret.arg
          /\ t.status = "queued"
          /\ t.started_at # NULL
          /\ \E u \in ret.rows : u.project = t.project /\ t.started_at < u.started_at

\* what checkRateLimit returns for the user of the last call at instant T,
\* the rows being those of the current store
AllowedAt(T) == checkRateLimit(feedback, rl.userId, T, T).allowed

\* the instants at which the answer may change, and the instants around the
\* end of the interval the claim speaks of
Probes(t, r) ==
    TimePoints
      \cup {t, t + 1, t + 1000 * (r - 1) - 1, t + 1000 * (r - 1) - 1000}
      \cup {feedback[i].created_at + 86400 * 1000 + e : i \in DOMAIN feedback, e \in {-1, 0, 1}}

\* a denial at time t with reset_in r is followed by denials at every time
\* before t + r - 1 seconds and by an admission at t + r seconds
DenialLasts(t, r) ==
    /\ \A T \in Probes(t, r) : (t <= T /\ T < t + 1000 * (r - 1)) => ~AllowedAt(T)
    /\ AllowedAt(t + 1000 * r)

\* C29 as stated: when all rows are written through the submission route
\* and checkRateLimit(u), called at time t, returns allowed = false with
\* reset_in = r, then with no further rows for u it still returns
\* allowed = false at every time before t + r - 1 seconds and returns
\* allowed = true at time t + r seconds.
C29_DenialLastsFromCall ==
    Denied => DenialLasts(rl.at, rl.resetIn)

\* C29 as amended: the same, with t the clock value the call read when it
\* computed reset_in, which is the time of the call when the clock does not
\* move during the call.
C29_DenialLastsFromResetClock ==
    Denied =>
        /\ DenialLasts(rl.at2, rl.resetIn)
        /\ rl.at2 = rl.at => DenialLasts(rl.at, rl.resetIn)

\* a denial with more than a second to wait, made while the clock moved
\* between the window query and the computation of reset_in
C29_Witness ==
    /\ Denied
    /\ rl.op = "checkRateLimit"
    /\ rl.at2 > rl.at
    /\ rl.resetIn > 1

\* the rows of one user, in the order of the store
RowsOf(rows, userId) ==
    LET Own(row) == row.user_id = userId
    IN  SelectSeq(rows, Own)

\* stores that hold the same rows for the user as the current store and
\* differ from it in the rows of other users: none of them, the same ones
\* written at the start or just now, or one more written then
StoresDifferingForOthers(userId) ==
    {RowsOf(feedback, userId)}
      \cup {[i \in DOMAIN feedback |->
                IF feedback[i].user_id = userId THEN feedback[i]
                ELSE [feedback[i] EXCEPT !.created_at = t]] : t \in {0, now}}
      \cup {Append(feedback, [user_id |-> other, created_at |-> t]) :
                other \in Users \ {userId}, t \in {0, now}}
      \cup {<<[user_id |-> other, created_at |-> t]>> \o feedback :
                other \in Users \ {userId}, t \in {0, now}}

\* what the caller of checkRateLimit sees
Decision(result) == <<result.allowed, result.remaining, result.resetIn>>

\* C30: the admission decision for a user does not depend on other users:
\* for two stores that hold the same rows for user u and differ only in
\* rows of other users, checkRateLimit(u) at the same instant returns the
\* same allowed, remaining and reset_in.
C30_OtherUsersDoNotMatter ==
    \A userId \in Users : \A d \in Elapsed :
        \A other \in StoresDifferingForOthers(userId) :
            /\ RowsOf(other, userId) = RowsOf(feedback, userId)
            /\ Decision(checkRateLimit(other, userId, now, now + d))
                 = Decision(checkRateLimit(feedback, userId, now, now + d))

\* a user with one row in the window is allowed with 1 remaining right
\* after a call, while another user has filled the window
C30_Witness ==
    /\ rl.op = "checkRateLimit"
    /\ now = rl.at2
    /\ rl.allowed
    /\ rl.remaining = 1
    /\ CountAfter(rl.userId, rl.at) = 1
    /\ \E other \in Users \ {rl.userId} :
          /\ CountAfter(other, rl.at) >= 2
          /\ ~checkRateLimit(feedback, other, now, now).allowed

====
